---- MODULE Spec2Model ----
(***************************************************************************)
(* Merkle-root multisig metadata construction of the relayer:              *)
(* MerkleRootMultisigMetadataBuilder (token_layout, fetch_metadata) and    *)
(* the collaborators it calls: the local tree index, the quorum checkpoint *)
(* locator and the merkle proof generator.                                 *)
(***************************************************************************)
EXTENDS Integers, Sequences, FiniteSets, TLC

\* ---------------------------------------------------------------- bounds
MaxLeaves == 2          \* messages ever inserted into the origin merkle tree
TreeDepth == 2          \* depth of the modelled merkle tree (32 on chain)
NumInv    == 2          \* fetch_metadata invocation slots (Spec runs slot 1)

Invocations == 1..NumInv
Msgs        == 1..MaxLeaves          \* message ids; message m is the m-th insertion
Validators  == {"A", "B", "C"}

\* validator sets (address -> weight) a caller may pass, and threshold weights
UnitSet     == [v \in Validators |-> 1]
WeightedSet == [v \in Validators |-> IF v = "C" THEN 2 ELSE 1]
\* (validator set, threshold weight) pairs a caller obtains from the registry
Requirements == { <<UnitSet, 2>>, <<WeightedSet, 3>> }

\* ------------------------------------------------ Result / Option values
None       == <<"None">>
Some(v)    == <<"Some", v>>
Ok(v)      == <<"Ok", v>>
Err(e)     == <<"Err", e>>
IsErr(r)   == r[1] = "Err"
IsOk(r)    == r[1] = "Ok"
IsSome(o)  == o[1] = "Some"
IsNone(o)  == o[1] = "None"
IsOkNone(r) == IsOk(r) /\ IsNone(r[2])
IsOkSome(r) == IsOk(r) /\ IsSome(r[2])

\* const CTX and eyre's .context(CTX): wraps the cause of an Err, leaves Ok alone
CTX == "When fetching MerkleRootMultisig metadata"
Context(r) == IF IsErr(r) THEN Err(<<CTX, r[2]>>) ELSE r

\* ------------------------------------------------------------ token_layout
\* faulty variant: leaf index and message id change places
token_layout_Swapped ==
    << "CheckpointMerkleTreeHook", "MessageId", "MessageMerkleLeafIndex",
       "MerkleProof", "CheckpointIndex", "Signatures" >>

token_layout ==
    << "CheckpointMerkleTreeHook", "MessageMerkleLeafIndex", "MessageId",
       "MerkleProof", "CheckpointIndex", "Signatures" >>

VARIABLES
    treeCount,      \* leaves inserted into the origin chain's merkle tree
    dbCount,        \* leaf insertions recorded in the local tree index
    proverCount,    \* leaves the local prover has synced (highest known + 1)
    signed,         \* checkpoint storage: validator -> set of signed indices
    pc,             \* per invocation: position in fetch_metadata
    args,           \* per invocation: the arguments it was called with
    highest_leaf_index, leaf_index, quorum_checkpoint,   \* locals
    calls,          \* per invocation: collaborator calls performed, in order
    result,         \* per invocation: the returned Result<Option<MultisigMetadata>>
    layout,         \* last value returned by token_layout()
    requirements    \* last ism_validator_requirements call: inputs, registry report, result

envVars == <<treeCount, dbCount, proverCount, signed>>
invVars == <<pc, args, highest_leaf_index, leaf_index, quorum_checkpoint, calls, result>>
vars == <<treeCount, dbCount, proverCount, signed, pc, args, highest_leaf_index,
          leaf_index, quorum_checkpoint, calls, result, layout, requirements>>

\* ------------------------------------------------------ merkle tree model
\* leaf value stored at position pos of the tree holding leaves 0..k
\* (message m is the leaf at index m-1; an empty position holds the zero leaf)
LeafAt(pos, k) == IF pos <= k THEN pos + 1 ELSE 0

RECURSIVE Pow2(_)
Pow2(n) == IF n = 0 THEN 1 ELSE 2 * Pow2(n - 1)

\* hash of the node at (level, pos) of the tree holding leaves 0..k;
\* the hash of two children is modelled injectively as their pair
RECURSIVE Node(_, _, _)
Node(level, pos, k) ==
    IF level = 0 THEN LeafAt(pos, k)
    ELSE << Node(level - 1, 2 * pos, k), Node(level - 1, 2 * pos + 1, k) >>

RootAt(k) == Node(TreeDepth, 0, k)

Sibling(pos) == IF pos % 2 = 0 THEN pos + 1 ELSE pos - 1

\* sibling path of leaf `leaf` in the tree holding leaves 0..k, bottom up
MerklePath(leaf, k) ==
    [l \in 1..TreeDepth |-> Node(l - 1, Sibling(leaf \div Pow2(l - 1)), k)]

\* the verifier's replay of a proof: fold the leaf with the sibling path,
\* the leaf index deciding at each level which side the sibling is on
RECURSIVE Replay(_, _, _, _)
Replay(node, index, path, l) ==
    IF l > Len(path) THEN node
    ELSE Replay(IF (index \div Pow2(l - 1)) % 2 = 0
                THEN << node, path[l] >>
                ELSE << path[l], node >>,
                index, path, l + 1)

MerkleRootFromBranch(leaf, index, path) == Replay(leaf, index, path, 1)

\* ------------------------------------------------- collaborator contracts
\* Local Tree Index: highest_known_leaf_index() -> Option<u32>
HighestKnownLeafIndex == IF proverCount = 0 THEN None ELSE Some(proverCount - 1)

\* Local Tree Index: get_merkle_leaf_id_by_message_id(id) -> Result<Option<u32>>
\* (a storage read that may fail)
LeafIndexOutcomes(message) ==
    { Err("db"), Ok(IF message <= dbCount THEN Some(message - 1) ELSE None) }

Checkpoint(k, origin) == [mailbox_domain |-> origin, root |-> RootAt(k), index |-> k]

Signers(validators, k) == {v \in DOMAIN validators : k \in signed[v]}

RECURSIVE SumWeight(_, _)
SumWeight(validators, S) ==
    IF S = {} THEN 0
    ELSE LET v == CHOOSE x \in S : TRUE
         IN  validators[v] + SumWeight(validators, S \ {v})

MeetsQuorum(validators, threshold_weight, k) ==
    SumWeight(validators, Signers(validators, k)) >= threshold_weight

SetMin(S) == CHOOSE x \in S : \A y \in S : x <= y

SetMax(S) == CHOOSE x \in S : \A y \in S : x >= y

\* faulty variant: the search runs from the top of the range downwards
LocateCheckpoint_Largest(validators, threshold_weight, lo, hi, origin, destination) ==
    LET cand == {k \in lo..hi : MeetsQuorum(validators, threshold_weight, k)}
    IN  IF cand = {} THEN None
        ELSE LET k == SetMax(cand)
             IN  Some([checkpoint |-> [checkpoint |-> Checkpoint(k, origin),
                                       message_id |-> k + 1],
                       signatures |-> Signers(validators, k)])

\* Quorum Checkpoint Locator: the checkpoint of smallest index in [lo, hi]
\* whose signers meet the threshold weight, or None
LocateCheckpoint(validators, threshold_weight, lo, hi, origin, destination) ==
    LET cand == {k \in lo..hi : MeetsQuorum(validators, threshold_weight, k)}
    IN  IF cand = {} THEN None
        ELSE LET k == SetMin(cand)
             IN  Some([checkpoint |-> [checkpoint |-> Checkpoint(k, origin),
                                       message_id |-> k + 1],
                       signatures |-> Signers(validators, k)])

\* fetch_checkpoint_in_range(..) -> Result<Option<MultisigSignedCheckpoint>>
\* (storage / transport may fail as a whole; an empty range lo > hi is
\* "not found", never an error)
FetchCheckpointOutcomes(validators, threshold_weight, lo, hi, origin, destination) ==
    { Ok(LocateCheckpoint(validators, threshold_weight, lo, hi, origin, destination)) }
    \cup (IF lo <= hi THEN { Err("io") } ELSE {})

\* Merkle Proof Generator: get_proof(leaf_index, checkpoint) -> Result<Proof>
\* fails when the tree data up to the checkpoint's index is unavailable
GetProofOutcomes(leaf, checkpoint) ==
    { Err("prover") } \cup
    ( IF checkpoint.index < proverCount /\ leaf <= checkpoint.index
      THEN { Ok([leaf  |-> LeafAt(leaf, checkpoint.index),
                 index |-> leaf,
                 path  |-> MerklePath(leaf, checkpoint.index)]) }
      ELSE {} )

\* immutable configuration of the builder (MessageMetadataBuilder)
origin_domain      == "origin"
destination_domain == "destination"

\* ------------------------------------------------------------------ state
Unset        == -1
NoArgs       == [validators |-> UnitSet, threshold_weight |-> 0, message |-> 0]
NoCheckpoint == [checkpoint |-> [checkpoint |-> [mailbox_domain |-> origin_domain,
                                                 root |-> RootAt(Unset),
                                                 index |-> Unset],
                                 message_id |-> 0],
                 signatures |-> {}]
Pending      == <<"Pending">>
NoRequirements == [ism_address |-> "", message |-> 0, report |-> Pending, ret |-> Pending]

Init ==
    /\ treeCount = 0
    /\ dbCount = 0
    /\ proverCount = 0
    /\ signed = [v \in Validators |-> {}]
    /\ pc = [i \in Invocations |-> "idle"]
    /\ args = [i \in Invocations |-> NoArgs]
    /\ highest_leaf_index = [i \in Invocations |-> Unset]
    /\ leaf_index = [i \in Invocations |-> Unset]
    /\ quorum_checkpoint = [i \in Invocations |-> NoCheckpoint]
    /\ calls = [i \in Invocations |-> << >>]
    /\ result = [i \in Invocations |-> Pending]
    /\ layout = << >>
    /\ requirements = NoRequirements

\* ------------------------------------------------- environment operations
\* the origin chain appends a message to its merkle tree
InsertMessage ==
    /\ treeCount < MaxLeaves
    /\ treeCount' = treeCount + 1
    /\ UNCHANGED <<dbCount, proverCount, signed, layout, requirements>>
    /\ UNCHANGED invVars

\* the indexer records the next leaf insertion (message id -> leaf index)
IndexLeaf ==
    /\ dbCount < treeCount
    /\ dbCount' = dbCount + 1
    /\ UNCHANGED <<treeCount, proverCount, signed, layout, requirements>>
    /\ UNCHANGED invVars

\* the local prover ingests the next leaf; the highest known index advances
ProverSync ==
    /\ proverCount < treeCount
    /\ proverCount' = proverCount + 1
    /\ UNCHANGED <<treeCount, dbCount, signed, layout, requirements>>
    /\ UNCHANGED invVars

\* validator v publishes a signed checkpoint for index k of the origin tree
Sign(v, k) ==
    /\ k < treeCount
    /\ k \notin signed[v]
    /\ signed' = [signed EXCEPT ![v] = @ \cup {k}]
    /\ UNCHANGED <<treeCount, dbCount, proverCount, layout, requirements>>
    /\ UNCHANGED invVars

\* -------------------------------------------------------------- the builder
TokenLayout ==
    /\ layout' = token_layout
    /\ UNCHANGED requirements
    /\ UNCHANGED envVars
    /\ UNCHANGED invVars

Call(fn, a, ret) == [fn |-> fn, args |-> a, ret |-> ret]

\* faulty variant: a step that failed is tried again instead of returning
Return_RetryOnErr(i, r) ==
    IF IsErr(r)
    THEN UNCHANGED <<result, pc>>
    ELSE /\ result' = [result EXCEPT ![i] = r]
         /\ pc' = [pc EXCEPT ![i] = "done"]

\* faulty variant: the result is kept in a field shared by all invocations
Return_Shared(i, r) ==
    /\ result' = [j \in Invocations |-> r]
    /\ pc' = [pc EXCEPT ![i] = "done"]

\* return r from invocation i
Return(i, r) ==
    /\ result' = [result EXCEPT ![i] = r]
    /\ pc' = [pc EXCEPT ![i] = "done"]

\* the outer scheduler invokes fetch_metadata(validators, threshold_weight, message, ..)
StartWith(i, req, m) ==
    /\ pc[i] \in {"idle", "done"}
    /\ args' = [args EXCEPT ![i] = [validators |-> req[1], threshold_weight |-> req[2],
                                    message |-> m]]
    /\ pc' = [pc EXCEPT ![i] = "highest"]
    /\ highest_leaf_index' = [highest_leaf_index EXCEPT ![i] = Unset]
    /\ leaf_index' = [leaf_index EXCEPT ![i] = Unset]
    /\ quorum_checkpoint' = [quorum_checkpoint EXCEPT ![i] = NoCheckpoint]
    /\ calls' = [calls EXCEPT ![i] = << >>]
    /\ result' = [result EXCEPT ![i] = Pending]
    /\ UNCHANGED envVars
    /\ UNCHANGED <<layout, requirements>>

Start(i) == \E req \in Requirements, m \in Msgs : StartWith(i, req, m)

\* the same with one validator set and threshold weight for every invocation
ConcStart(i) == \E m \in Msgs : StartWith(i, <<WeightedSet, 3>>, m)

\* A step of fetch_metadata either returns r to the caller or binds a local
\* and goes on: the `?` operator returns an Err, unwrap_or_none_result!
\* returns Ok(None) on None.
Ret(r)  == <<"return", r>>
Bind(v) == <<"continue", v>>

\* let highest_leaf_index = unwrap_or_none_result!(self.highest_known_leaf_index().await, ..)
\* faulty variant: an unknown highest index defaults to 0 instead of returning
HighestStep_DefaultZero(r) == IF IsSome(r) THEN Bind(r[2]) ELSE Bind(0)

HighestStep(r) == IF IsSome(r) THEN Bind(r[2]) ELSE Ret(Ok(None))

FetchHighest(i) ==
    /\ pc[i] = "highest"
    /\ LET r == HighestKnownLeafIndex
           s == HighestStep(r) IN
         /\ calls' = [calls EXCEPT ![i] = Append(@, Call("highest_known_leaf_index", << >>, r))]
         /\ IF s[1] = "continue"
            THEN /\ highest_leaf_index' = [highest_leaf_index EXCEPT ![i] = s[2]]
                 /\ pc' = [pc EXCEPT ![i] = "leaf"]
                 /\ UNCHANGED result
            ELSE /\ Return(i, s[2])
                 /\ UNCHANGED highest_leaf_index
    /\ UNCHANGED <<args, leaf_index, quorum_checkpoint, layout, requirements>>
    /\ UNCHANGED envVars

\* let leaf_index = unwrap_or_none_result!(
\*     self.get_merkle_leaf_id_by_message_id(message.id()).await.context(CTX)?, ..)
\* faulty variant: a message without a recorded leaf is reported as an error
LeafStep_ErrOnMissing(raw) ==
    LET r == Context(raw) IN
    IF IsErr(r) THEN Ret(r)
    ELSE IF IsSome(r[2]) THEN Bind(r[2][2])
    ELSE Ret(Err(<<CTX, "no leaf">>))

\* faulty variant: a failed lookup is swallowed (.ok().flatten()) into "absent"
LeafStep_SwallowErr(raw) ==
    IF IsErr(raw) THEN Ret(Ok(None))
    ELSE IF IsSome(raw[2]) THEN Bind(raw[2][2])
    ELSE Ret(Ok(None))

LeafStep(raw) ==
    LET r == Context(raw) IN
    IF IsErr(r) THEN Ret(r)
    ELSE IF IsSome(r[2]) THEN Bind(r[2][2])
    ELSE Ret(Ok(None))

FetchLeaf(i) ==
    /\ pc[i] = "leaf"
    /\ \E raw \in LeafIndexOutcomes(args[i].message) :
         LET s == LeafStep(raw) IN
         /\ calls' = [calls EXCEPT ![i] =
                Append(@, Call("get_merkle_leaf_id_by_message_id", <<args[i].message>>, raw))]
         /\ IF s[1] = "continue"
            THEN /\ leaf_index' = [leaf_index EXCEPT ![i] = s[2]]
                 /\ pc' = [pc EXCEPT ![i] = "checkpoint"]
                 /\ UNCHANGED result
            ELSE /\ Return(i, s[2])
                 /\ UNCHANGED leaf_index
    /\ UNCHANGED <<args, highest_leaf_index, quorum_checkpoint, layout, requirements>>
    /\ UNCHANGED envVars

\* let quorum_checkpoint = unwrap_or_none_result!(
\*     checkpoint_syncer.fetch_checkpoint_in_range(validators, threshold_weight,
\*         leaf_index, highest_leaf_index, self.origin_domain(),
\*         self.destination_domain()).await.context(CTX)?, ..)
\* faulty variant: origin and destination domain change places
CheckpointArgs_SwappedDomains(i) ==
    << args[i].validators, args[i].threshold_weight, leaf_index[i],
       highest_leaf_index[i], destination_domain, origin_domain >>

\* faulty variant: the threshold weight is passed on one too low
CheckpointArgs_ThresholdOffByOne(i) ==
    << args[i].validators, args[i].threshold_weight - 1, leaf_index[i],
       highest_leaf_index[i], origin_domain, destination_domain >>

\* faulty variant: the range is not capped at the highest known leaf index
CheckpointArgs_NoUpperBound(i) ==
    << args[i].validators, args[i].threshold_weight, leaf_index[i],
       MaxLeaves - 1, origin_domain, destination_domain >>

CheckpointArgs(i) ==
    << args[i].validators, args[i].threshold_weight, leaf_index[i],
       highest_leaf_index[i], origin_domain, destination_domain >>

\* faulty variant: a failed checkpoint fetch is swallowed into "absent"
CheckpointStep_SwallowErr(raw) ==
    IF IsErr(raw) THEN Ret(Ok(None))
    ELSE IF IsSome(raw[2]) THEN Bind(raw[2][2])
    ELSE Ret(Ok(None))

\* faulty variant: "no quorum checkpoint in range" is reported as an error
CheckpointStep_ErrOnNone(raw) ==
    LET r == Context(raw) IN
    IF IsErr(r) THEN Ret(r)
    ELSE IF IsSome(r[2]) THEN Bind(r[2][2])
    ELSE Ret(Err(<<CTX, "no checkpoint">>))

CheckpointStep(raw) ==
    LET r == Context(raw) IN
    IF IsErr(r) THEN Ret(r)
    ELSE IF IsSome(r[2]) THEN Bind(r[2][2])
    ELSE Ret(Ok(None))

FetchCheckpoint(i) ==
    /\ pc[i] = "checkpoint"
    /\ LET a == CheckpointArgs(i) IN
       \E raw \in FetchCheckpointOutcomes(a[1], a[2], a[3], a[4], a[5], a[6]) :
         LET s == CheckpointStep(raw) IN
         /\ calls' = [calls EXCEPT ![i] = Append(@, Call("fetch_checkpoint_in_range", a, raw))]
         /\ IF s[1] = "continue"
            THEN /\ quorum_checkpoint' = [quorum_checkpoint EXCEPT ![i] = s[2]]
                 /\ pc' = [pc EXCEPT ![i] = "proof"]
                 /\ UNCHANGED result
            ELSE /\ Return(i, s[2])
                 /\ UNCHANGED quorum_checkpoint
    /\ UNCHANGED <<args, highest_leaf_index, leaf_index, layout, requirements>>
    /\ UNCHANGED envVars

\* let proof = self.get_proof(leaf_index, quorum_checkpoint.checkpoint.checkpoint)
\*     .await.context(CTX)?;
\* Ok(Some(MultisigMetadata::new(quorum_checkpoint, leaf_index, Some(proof))))
\* faulty variant: the proof is requested for the highest known leaf
ProofArgs_WrongLeaf(i) ==
    << highest_leaf_index[i], quorum_checkpoint[i].checkpoint.checkpoint >>

ProofArgs(i) == << leaf_index[i], quorum_checkpoint[i].checkpoint.checkpoint >>

MultisigMetadata(checkpoint, leaf, proof) ==
    [checkpoint |-> checkpoint, merkle_leaf_index |-> leaf, proof |-> proof]

\* faulty variant: the proof step labels its error differently
ProofStep_OtherLabel(raw, checkpoint, leaf) ==
    IF IsErr(raw) THEN Ret(Err(<<"When computing the merkle proof", raw[2]>>))
    ELSE Ret(Ok(Some(MultisigMetadata(checkpoint, leaf, Some(raw[2])))))

\* faulty variant: a failed proof is swallowed and metadata is built without it
ProofStep_SwallowErr(raw, checkpoint, leaf) ==
    IF IsErr(raw) THEN Ret(Ok(Some(MultisigMetadata(checkpoint, leaf, None))))
    ELSE Ret(Ok(Some(MultisigMetadata(checkpoint, leaf, Some(raw[2])))))

ProofStep(raw, checkpoint, leaf) ==
    LET r == Context(raw) IN
    IF IsErr(r) THEN Ret(r)
    ELSE Ret(Ok(Some(MultisigMetadata(checkpoint, leaf, Some(r[2])))))

FetchProof(i) ==
    /\ pc[i] = "proof"
    /\ LET a == ProofArgs(i) IN
       \E raw \in GetProofOutcomes(a[1], a[2]) :
         LET s == ProofStep(raw, quorum_checkpoint[i], leaf_index[i]) IN
         /\ calls' = [calls EXCEPT ![i] = Append(@, Call("get_proof", a, raw))]
         /\ Return(i, s[2])
    /\ UNCHANGED <<args, highest_leaf_index, leaf_index, quorum_checkpoint, layout, requirements>>
    /\ UNCHANGED envVars

\* ------------------------------------------------ ism_validator_requirements
IsmAddresses == {"ism1", "ism2"}

\* what the verifier contract reports: Ok(<<validator set, threshold count>>),
\* or the query fails
RegistryOutcomes ==
    { Err("rpc") } \cup
    { Ok(<<S, t>>) : S \in SUBSET Validators, t \in 0..Cardinality(Validators) }

\* Validator Registry Query, unit-weight variant: weight 1 for every reported
\* validator, the reported threshold count as the threshold weight
FetchUnitValidatorRequirements(report) ==
    IF IsErr(report) THEN report
    ELSE Ok(<< [v \in report[2][1] |-> 1], report[2][2] >>)

\* Validator Registry Query, weighted variant: the weights the contract assigns
FetchWeightedValidatorRequirements(report) ==
    IF IsErr(report) THEN report
    ELSE Ok(<< [v \in report[2][1] |-> WeightedSet[v]], report[2][2] >>)

\* faulty variant: the builder delegates to the weighted variant
ism_validator_requirements_Weighted(report) ==
    FetchWeightedValidatorRequirements(report)

\* fetch_unit_validator_requirements(self, ism_address, message).await
ism_validator_requirements(report) == FetchUnitValidatorRequirements(report)

IsmValidatorRequirements ==
    /\ \E ism \in IsmAddresses, m \in Msgs, report \in RegistryOutcomes :
          requirements' = [ism_address |-> ism, message |-> m, report |-> report,
                           ret |-> ism_validator_requirements(report)]
    /\ UNCHANGED envVars
    /\ UNCHANGED invVars
    /\ UNCHANGED layout

\* ism_validator_requirements() called with arbitrary registry reports
ReqNext == IsmValidatorRequirements

ReqSpec == Init /\ [][ReqNext]_vars

\* one step of invocation i of fetch_metadata
FetchMetadata(i) ==
    \/ Start(i)
    \/ FetchHighest(i)
    \/ FetchLeaf(i)
    \/ FetchCheckpoint(i)
    \/ FetchProof(i)

EnvNext ==
    \/ InsertMessage
    \/ IndexLeaf
    \/ ProverSync
    \/ \E v \in Validators, k \in 0..(MaxLeaves - 1) : Sign(v, k)

\* one fetch_metadata attempt at a time, against a changing environment
Next == EnvNext \/ FetchMetadata(1)

Spec == Init /\ [][Next]_vars

\* ---------------------------------------------------- concurrent invocations
\* every message is on chain and all but the last are indexed, the validators
\* A and C have signed every checkpoint, the local prover has synced nothing yet
ConcInit ==
    /\ treeCount = MaxLeaves
    /\ dbCount = MaxLeaves - 1
    /\ proverCount = 0
    /\ signed = [v \in Validators |-> IF v = "B" THEN {} ELSE 0..(MaxLeaves - 1)]
    /\ pc = [i \in Invocations |-> "idle"]
    /\ args = [i \in Invocations |-> NoArgs]
    /\ highest_leaf_index = [i \in Invocations |-> Unset]
    /\ leaf_index = [i \in Invocations |-> Unset]
    /\ quorum_checkpoint = [i \in Invocations |-> NoCheckpoint]
    /\ calls = [i \in Invocations |-> << >>]
    /\ result = [i \in Invocations |-> Pending]
    /\ layout = << >>
    /\ requirements = NoRequirements

ConcStep(i) ==
    \/ ConcStart(i)
    \/ FetchHighest(i)
    \/ FetchLeaf(i)
    \/ FetchCheckpoint(i)
    \/ FetchProof(i)

\* any number of invocations interleaved, while indexer and prover keep syncing
ConcNext == IndexLeaf \/ ProverSync \/ \E i \in Invocations : ConcStep(i)

ConcSpec == ConcInit /\ [][ConcNext]_vars

\* ------------------------------------------------------------- termination
\* every message is on chain and all but the last are indexed, validator C
\* has signed every checkpoint, the local prover has synced nothing yet
FairInit ==
    /\ treeCount = MaxLeaves
    /\ dbCount = MaxLeaves - 1
    /\ proverCount = 0
    /\ signed = [v \in Validators |-> IF v = "C" THEN 0..(MaxLeaves - 1) ELSE {}]
    /\ pc = [i \in Invocations |-> "idle"]
    /\ args = [i \in Invocations |-> NoArgs]
    /\ highest_leaf_index = [i \in Invocations |-> Unset]
    /\ leaf_index = [i \in Invocations |-> Unset]
    /\ quorum_checkpoint = [i \in Invocations |-> NoCheckpoint]
    /\ calls = [i \in Invocations |-> << >>]
    /\ result = [i \in Invocations |-> Pending]
    /\ layout = << >>
    /\ requirements = NoRequirements

FairNext ==
    \/ IndexLeaf
    \/ ProverSync
    \/ \E k \in 0..(MaxLeaves - 1) : Sign("A", k)
    \/ FetchMetadata(1)

\* every collaborator call an invocation is waiting for eventually completes
CallsComplete(i) ==
    /\ WF_vars(FetchHighest(i))
    /\ WF_vars(FetchLeaf(i))
    /\ WF_vars(FetchCheckpoint(i))
    /\ WF_vars(FetchProof(i))

FairSpec == FairInit /\ [][FairNext]_vars /\ CallsComplete(1)

\* the same, with token_layout() called at arbitrary moments
LayoutNext == Next \/ TokenLayout

LayoutSpec == Init /\ [][LayoutNext]_vars

\* ------------------------------------------------------------ properties
FN_HIGHEST    == "highest_known_leaf_index"
FN_LEAF       == "get_merkle_leaf_id_by_message_id"
FN_CHECKPOINT == "fetch_checkpoint_in_range"
FN_PROOF      == "get_proof"

\* positions in invocation i's call trace at which collaborator fn was called
CallsOf(i, fn) == {n \in DOMAIN calls[i] : calls[i][n].fn = fn}
Called(i, fn)  == CallsOf(i, fn) # {}
Done(i)        == pc[i] = "done"

\* C1: whenever the leaf-index lookup of an invocation reported no recorded
\* leaf (Ok(None)), the invocation has returned Ok(None), not an error, and
\* it called neither the quorum checkpoint locator nor the proof generator.
C1_NoLeafIsEmptySuccess ==
    \A i \in Invocations : \A n \in CallsOf(i, FN_LEAF) :
        IsOkNone(calls[i][n].ret) =>
            /\ Done(i)
            /\ IsOkNone(result[i])
            /\ ~Called(i, FN_CHECKPOINT)
            /\ ~Called(i, FN_PROOF)

\* an invocation whose leaf lookup found nothing has completed
C1_Witness ==
    /\ Done(1)
    /\ \E n \in CallsOf(1, FN_LEAF) : IsOkNone(calls[1][n].ret)

\* C2: whenever the highest known leaf index was unknown (None), the
\* invocation has returned Ok(None) and that query is the only collaborator
\* call it made: no leaf lookup, no checkpoint request, no proof.
C2_UnknownHighestIsEmptySuccess ==
    \A i \in Invocations : \A n \in CallsOf(i, FN_HIGHEST) :
        IsNone(calls[i][n].ret) =>
            /\ Done(i)
            /\ IsOkNone(result[i])
            /\ Len(calls[i]) = 1
            /\ ~Called(i, FN_LEAF) /\ ~Called(i, FN_CHECKPOINT) /\ ~Called(i, FN_PROOF)

\* the tree was not synced although the message's leaf was already recorded
C2_Witness ==
    /\ Done(1)
    /\ \E n \in CallsOf(1, FN_HIGHEST) : IsNone(calls[1][n].ret)
    /\ args[1].message <= dbCount

\* C3: whenever the quorum checkpoint locator returned Ok(None), the
\* invocation has returned Ok(None) and never called the proof generator.
C3_NoCheckpointIsEmptySuccess ==
    \A i \in Invocations : \A n \in CallsOf(i, FN_CHECKPOINT) :
        IsOkNone(calls[i][n].ret) =>
            /\ Done(i)
            /\ IsOkNone(result[i])
            /\ ~Called(i, FN_PROOF)

\* no quorum checkpoint in a non-empty range
C3_Witness ==
    /\ Done(1)
    /\ \E n \in CallsOf(1, FN_CHECKPOINT) :
          /\ IsOkNone(calls[1][n].ret)
          /\ calls[1][n].args[3] <= calls[1][n].args[4]

\* the value v of an Ok(Some(v)) / Some(v)
OkVal(r)   == r[2][2]
SomeVal(o) == o[2]

\* C4: an invocation that read a highest known leaf index h and resolved a
\* leaf index greater than h returns Ok(None): no error, no metadata.
C4_LeafAheadIsEmptySuccess ==
    \A i \in Invocations :
        ( /\ Done(i)
          /\ \E h \in CallsOf(i, FN_HIGHEST), l \in CallsOf(i, FN_LEAF) :
                /\ IsSome(calls[i][h].ret)
                /\ IsOkSome(calls[i][l].ret)
                /\ OkVal(calls[i][l].ret) > SomeVal(calls[i][h].ret) )
        => IsOkNone(result[i])

\* the message is ahead of local sync while a quorum checkpoint covering it
\* is already published
C4_Witness ==
    /\ Done(1)
    /\ leaf_index[1] # Unset
    /\ leaf_index[1] > highest_leaf_index[1]
    /\ \E k \in leaf_index[1]..(MaxLeaves - 1) :
          MeetsQuorum(args[1].validators, args[1].threshold_weight, k)

\* C5: when the proof computation against a found quorum checkpoint failed,
\* the invocation has returned an error; and metadata never lacks its proof.
C5_ProofFailureIsError ==
    \A i \in Invocations :
        /\ \A n \in CallsOf(i, FN_PROOF) :
              IsErr(calls[i][n].ret) => (Done(i) /\ IsErr(result[i]))
        /\ IsOkSome(result[i]) => IsSome(OkVal(result[i]).proof)

\* a quorum checkpoint was found and the proof computation failed
C5_Witness ==
    /\ Done(1)
    /\ \E c \in CallsOf(1, FN_CHECKPOINT) : IsOkSome(calls[1][c].ret)
    /\ \E n \in CallsOf(1, FN_PROOF) : IsErr(calls[1][n].ret)

\* C6: when the leaf-index lookup or the checkpoint fetch failed, the
\* invocation has returned an error and the failing call is its last call.
C6_LookupFailureAborts ==
    \A i \in Invocations : \A n \in CallsOf(i, FN_LEAF) \cup CallsOf(i, FN_CHECKPOINT) :
        IsErr(calls[i][n].ret) =>
            /\ Done(i)
            /\ IsErr(result[i])
            /\ n = Len(calls[i])

\* the checkpoint fetch failed after the leaf was resolved
C6_Witness ==
    /\ Done(1)
    /\ \E n \in CallsOf(1, FN_CHECKPOINT) : IsErr(calls[1][n].ret)

\* the soft conditions that occurred in invocation i
SoftConditions(i) ==
    {n \in DOMAIN calls[i] :
        \/ calls[i][n].fn = FN_HIGHEST /\ IsNone(calls[i][n].ret)
        \/ calls[i][n].fn = FN_LEAF /\ IsOkNone(calls[i][n].ret)
        \/ calls[i][n].fn = FN_CHECKPOINT /\ IsOkNone(calls[i][n].ret)}

FailedCalls(i) == {n \in DOMAIN calls[i] : IsErr(calls[i][n].ret)}

\* C7: a returned Ok(None) means no performed call failed and exactly one of
\* the three soft conditions occurred; a returned Err means a performed call
\* failed.
C7_ResultShapeSeparatesSoftFromHard ==
    \A i \in Invocations : Done(i) =>
        /\ IsOkNone(result[i]) =>
              (FailedCalls(i) = {} /\ Cardinality(SoftConditions(i)) = 1)
        /\ IsErr(result[i]) => FailedCalls(i) # {}

\* an invocation ended in an error after a lookup failed
C7_Witness ==
    /\ Done(1)
    /\ IsErr(result[1])
    /\ \E n \in CallsOf(1, FN_LEAF) : IsErr(calls[1][n].ret)

\* C8: returned metadata holds the quorum checkpoint the locator returned in
\* this invocation, the leaf index resolved for the message, and a present
\* proof: the one computed for that leaf index against that checkpoint.
C8_MetadataIsWhatWasFetched ==
    \A i \in Invocations : IsOkSome(result[i]) =>
        LET m == OkVal(result[i]) IN
        \E c \in CallsOf(i, FN_CHECKPOINT), l \in CallsOf(i, FN_LEAF), p \in CallsOf(i, FN_PROOF) :
            /\ IsOkSome(calls[i][c].ret)
            /\ m.checkpoint = OkVal(calls[i][c].ret)
            /\ calls[i][l].args = <<args[i].message>>
            /\ IsOkSome(calls[i][l].ret)
            /\ m.merkle_leaf_index = OkVal(calls[i][l].ret)
            /\ IsOk(calls[i][p].ret)
            /\ IsSome(m.proof)
            /\ SomeVal(m.proof) = calls[i][p].ret[2]
            /\ calls[i][p].args[1] = m.merkle_leaf_index
            /\ calls[i][p].args[2] = m.checkpoint.checkpoint.checkpoint

\* metadata was returned for a leaf below the highest known one
C8_Witness ==
    /\ IsOkSome(result[1])
    /\ OkVal(result[1]).merkle_leaf_index < highest_leaf_index[1]

\* C9: the checkpoint index of returned metadata lies in
\* [leaf index, highest known leaf index read by that invocation].
C9_CheckpointIndexInRange ==
    \A i \in Invocations : IsOkSome(result[i]) =>
        LET m == OkVal(result[i])
            k == m.checkpoint.checkpoint.checkpoint.index IN
        \E h \in CallsOf(i, FN_HIGHEST) :
            /\ IsSome(calls[i][h].ret)
            /\ m.merkle_leaf_index <= k
            /\ k <= SomeVal(calls[i][h].ret)

\* metadata was returned although the tree index has advanced past the value
\* the invocation read and a quorum checkpoint above that value is published
C9_Witness ==
    /\ IsOkSome(result[1])
    /\ proverCount - 1 > highest_leaf_index[1]
    /\ \E k \in (highest_leaf_index[1] + 1)..(MaxLeaves - 1) :
          MeetsQuorum(args[1].validators, args[1].threshold_weight, k)

\* C10: token_layout() always returns the same six tokens in the same order
\* (tree-hook address, leaf index, message id, merkle proof, checkpoint
\* index, signatures), whatever the builder has done before, and a call
\* changes nothing but the returned value.
MerkleRootLayout ==
    << "CheckpointMerkleTreeHook", "MessageMerkleLeafIndex", "MessageId",
       "MerkleProof", "CheckpointIndex", "Signatures" >>

C10_TokenLayoutFixed ==
    /\ [](layout \in {<< >>, MerkleRootLayout})
    /\ [][layout' # layout =>
            /\ layout' = MerkleRootLayout
            /\ UNCHANGED envVars
            /\ UNCHANGED invVars]_vars

\* token_layout() was called after a fetch_metadata invocation returned metadata
C10_Witness ==
    /\ Len(layout) = 6
    /\ IsOkSome(result[1])

\* C11: ism_validator_requirements returns every validator the verifier
\* contract reported, each with weight exactly 1, and the reported threshold
\* count as the threshold weight; a failed registry query is returned as an
\* error.
C11_UnitWeightRequirements ==
    requirements.ret[1] # "Pending" =>
        /\ IsErr(requirements.report) => IsErr(requirements.ret)
        /\ IsOk(requirements.report) =>
              /\ IsOk(requirements.ret)
              /\ DOMAIN requirements.ret[2][1] = requirements.report[2][1]
              /\ \A v \in DOMAIN requirements.ret[2][1] : requirements.ret[2][1][v] = 1
              /\ requirements.ret[2][2] = requirements.report[2][2]

\* the contract reported three validators and threshold count 2
C11_Witness ==
    /\ IsOk(requirements.report)
    /\ requirements.report[2] = <<Validators, 2>>
    /\ IsOk(requirements.ret)
    /\ requirements.ret[2][2] = 2

\* summed weight, under `validators`, of the validators whose signature for
\* checkpoint index k is in storage
SignedWeight(validators, k) ==
    (IF k \in signed["A"] THEN validators["A"] ELSE 0)
    + (IF k \in signed["B"] THEN validators["B"] ELSE 0)
    + (IF k \in signed["C"] THEN validators["C"] ELSE 0)

\* invocation i performs collaborator call fn in this step
Calls(i, fn) ==
    /\ Len(calls'[i]) = Len(calls[i]) + 1
    /\ calls'[i][Len(calls'[i])].fn = fn

LastCall(i) == calls[i][Len(calls[i])]

SigWeight(validators, S) ==
    (IF "A" \in S THEN validators["A"] ELSE 0)
    + (IF "B" \in S THEN validators["B"] ELSE 0)
    + (IF "C" \in S THEN validators["C"] ELSE 0)

\* C13: a checkpoint is accepted as quorum checkpoint exactly when the summed
\* weight of its signers is at least the threshold weight: the locator's
\* answer carries signer weight >= threshold, every index of the range it
\* passed over (all of them when it answers None) has weight below it, and
\* the checkpoint of returned metadata has signer weight >= the threshold
\* weight fetch_metadata was called with.
C13_QuorumIffWeightAtLeastThreshold ==
    /\ [](\A i \in Invocations : IsOkSome(result[i]) =>
            SigWeight(args[i].validators, OkVal(result[i]).checkpoint.signatures)
                >= args[i].threshold_weight)
    /\ [][\A i \in Invocations :
            (Calls(i, FN_CHECKPOINT) /\ IsOk(LastCall(i)'.ret)) =>
               LET a == LastCall(i)'.args
                   r == LastCall(i)'.ret[2]
                   top == IF IsSome(r) THEN SomeVal(r).checkpoint.checkpoint.index - 1
                          ELSE a[4]
               IN  /\ IsSome(r) =>
                         /\ SigWeight(a[1], SomeVal(r).signatures) >= a[2]
                         /\ SomeVal(r).signatures =
                               {v \in Validators :
                                   SomeVal(r).checkpoint.checkpoint.index \in signed[v]}
                   /\ \A k \in a[3]..top : SignedWeight(a[1], k) < a[2]]_vars

\* with weights {A:1, B:1, C:2} and threshold 3, index 0 signed by A and B
\* only was passed over and the checkpoint signed by exactly A and C returned
C13_Witness ==
    /\ IsOkSome(result[1])
    /\ args[1].validators = WeightedSet
    /\ args[1].threshold_weight = 3
    /\ OkVal(result[1]).merkle_leaf_index = 0
    /\ OkVal(result[1]).checkpoint.checkpoint.checkpoint.index = 1
    /\ OkVal(result[1]).checkpoint.signatures = {"A", "C"}
    /\ 0 \in signed["A"] /\ 0 \in signed["B"] /\ 0 \notin signed["C"]

\* node hashes of level `level` occurring in any state of the tree
NodesOfLevel(level) ==
    { Node(level, pos, k) : pos \in 0..(Pow2(TreeDepth - level) - 1),
                            k \in (-1)..(MaxLeaves - 1) }

\* C14: every proof produced for a leaf index against a checkpoint of index
\* k >= leaf index, replayed with the message's leaf value and the leaf
\* index, reconstructs exactly the checkpoint's root; with any single sibling
\* hash replaced by a different one the reconstructed root differs.
C14_ProofRoundTrip ==
    \A i \in Invocations : \A n \in CallsOf(i, FN_PROOF) :
        IsOk(calls[i][n].ret) =>
            LET leaf == calls[i][n].args[1]
                cp   == calls[i][n].args[2]
                path == calls[i][n].ret[2].path
            IN  /\ leaf <= cp.index
                /\ MerkleRootFromBranch(args[i].message, leaf, path) = cp.root
                /\ \A l \in 1..Len(path) : \A x \in NodesOfLevel(l - 1) \ {path[l]} :
                      MerkleRootFromBranch(args[i].message, leaf, [path EXCEPT ![l] = x])
                          # cp.root

\* a proof was produced against a checkpoint above the message's own leaf
C14_Witness ==
    /\ Done(1)
    /\ \E n \in CallsOf(1, FN_PROOF) :
          /\ IsOk(calls[1][n].ret)
          /\ calls[1][n].args[1] < calls[1][n].args[2].index

\* the collaborator call returned data (not "absent", not a failure)
ReturnedData(r) == IsSome(r) \/ IsOkSome(r) \/ (IsOk(r) /\ ~IsNone(r[2]))

CallOrder == << FN_HIGHEST, FN_LEAF, FN_CHECKPOINT, FN_PROOF >>

\* C15: the collaborator calls of an invocation are, in this order, the
\* highest-known-leaf-index query, the leaf-index lookup, the checkpoint
\* fetch and the proof computation, each at most once, and every call but
\* the last one made returned data.
C15_CallOrder ==
    \A i \in Invocations :
        /\ Len(calls[i]) <= 4
        /\ \A n \in DOMAIN calls[i] :
              /\ calls[i][n].fn = CallOrder[n]
              /\ n < Len(calls[i]) => ReturnedData(calls[i][n].ret)

\* an invocation went through all four calls
C15_Witness ==
    /\ Done(1)
    /\ Len(calls[1]) = 4
    /\ IsOkSome(result[1])

\* C17: an invocation issues at most one checkpoint request; its lower bound
\* is the leaf index its own lookup returned, its upper bound the highest
\* known leaf index its own query returned, validator set and threshold
\* weight are the caller's, and the domains are the builder's origin and
\* destination domain.
C17_CheckpointRequestArguments ==
    \A i \in Invocations :
        /\ Cardinality(CallsOf(i, FN_CHECKPOINT)) <= 1
        /\ \A n \in CallsOf(i, FN_CHECKPOINT) :
              \E h \in CallsOf(i, FN_HIGHEST), l \in CallsOf(i, FN_LEAF) :
                  /\ h < l /\ l < n
                  /\ IsSome(calls[i][h].ret)
                  /\ IsOkSome(calls[i][l].ret)
                  /\ calls[i][l].args = <<args[i].message>>
                  /\ calls[i][n].args =
                        << args[i].validators, args[i].threshold_weight,
                           OkVal(calls[i][l].ret), SomeVal(calls[i][h].ret),
                           "origin", "destination" >>

\* a checkpoint was requested over a range of more than one index with the
\* weighted validator set
C17_Witness ==
    \E n \in CallsOf(1, FN_CHECKPOINT) :
        /\ calls[1][n].args[3] < calls[1][n].args[4]
        /\ calls[1][n].args[1] = WeightedSet

\* C18: every error an invocation returns is the cause reported by the
\* failing collaborator call wrapped with the one fixed label of the
\* operation, whichever step failed.
C18_ErrorsCarryCauseAndLabel ==
    \A i \in Invocations : IsErr(result[i]) =>
        /\ Len(calls[i]) >= 1
        /\ IsErr(LastCall(i).ret)
        /\ result[i][2] = << "When fetching MerkleRootMultisig metadata", LastCall(i).ret[2] >>

\* the proof computation failed and its error was returned
C18_Witness ==
    /\ Done(1)
    /\ IsErr(result[1])
    /\ Len(calls[1]) = 4
    /\ result[1][2][2] = "prover"

\* invocation i takes a step / invocation j is left as it is
Moves(i) == pc'[i] # pc[i]
Untouched(j) ==
    /\ pc'[j] = pc[j]
    /\ args'[j] = args[j]
    /\ highest_leaf_index'[j] = highest_leaf_index[j]
    /\ leaf_index'[j] = leaf_index[j]
    /\ quorum_checkpoint'[j] = quorum_checkpoint[j]
    /\ calls'[j] = calls[j]
    /\ result'[j] = result[j]

\* C16: with invocations interleaved arbitrarily, a step of an invocation
\* writes neither the tree index, the checkpoint storage nor any other
\* invocation's state, and the result of an invocation is determined by what
\* its own collaborator calls returned: two completed invocations with the
\* same call trace have the same result.
C16_InvocationsDoNotInterfere ==
    /\ [](\A i, j \in Invocations :
            (Done(i) /\ Done(j) /\ calls[i] = calls[j]) => result[i] = result[j])
    /\ [][\A i \in Invocations : Moves(i) =>
            /\ UNCHANGED envVars
            /\ \A j \in Invocations \ {i} : Untouched(j)]_vars

\* two invocations for the same message overlap: one has returned metadata
\* while the other, having read a different highest known leaf index, is
\* still waiting for its proof
C16_Witness ==
    /\ Done(1)
    /\ IsOkSome(result[1])
    /\ pc[2] = "proof"
    /\ args[1].message = args[2].message
    /\ highest_leaf_index[1] # highest_leaf_index[2]

InFlight(i) == pc[i] \in {"highest", "leaf", "checkpoint", "proof"}

\* C19: an invocation makes at most four collaborator calls, a completed
\* invocation holds one of Ok(Some), Ok(None) or Err, and, every collaborator
\* call completing, an invocation in flight eventually completes.
C19_InvocationCompletes ==
    /\ [](\A i \in Invocations :
            /\ Len(calls[i]) <= 4
            /\ Done(i) => (IsOkSome(result[i]) \/ IsOkNone(result[i]) \/ IsErr(result[i]))
            /\ InFlight(i) => result[i][1] = "Pending")
    /\ \A i \in Invocations : InFlight(i) ~> Done(i)

\* an invocation completed after four collaborator calls, the last one failing
C19_Witness ==
    /\ Done(1)
    /\ Len(calls[1]) = 4
    /\ IsErr(result[1])

TypeOK ==
    /\ treeCount \in 0..MaxLeaves
    /\ dbCount \in 0..treeCount
    /\ proverCount \in 0..treeCount
    /\ \A i \in Invocations : pc[i] \in {"idle", "highest", "leaf", "checkpoint", "proof", "done"}
====
